---- MODULE Spec2Model ----
(***************************************************************************)
(* Model of mcp_pdf_reader/server.py: the path resolver, the page-range   *)
(* normalisation and the three tools read_pdf_text, read_by_ocr and        *)
(* read_pdf_images, running over a document engine (fitz) whose handles    *)
(* are kept in a table.                                                    *)
(*                                                                         *)
(* A string that names a file is modelled by the record                    *)
(*   [abs |-> BOOLEAN, parts |-> sequence of components]                   *)
(* ("" is [abs |-> FALSE, parts |-> <<>>]); a component "." is kept in the *)
(* string and dropped by Path(), as pathlib does.  An optional value is a  *)
(* sequence: <<>> is None, <<v>> is v.                                      *)
(***************************************************************************)
EXTENDS Integers, Sequences, FiniteSets, TLC

VARIABLES files, cwd, pdf_dir, server, calls, handles, resolved

vars == <<files, cwd, pdf_dir, server, calls, handles, resolved>>

(***************************************************************************)
(* Bounds of the model.                                                    *)
(***************************************************************************)
MaxArg == 3
MaxBelow == 1
MaxHandles == 2
NCalls == 2

MinArg == 0 - MaxBelow
Calls == 1..NCalls

None == <<>>
Some(v) == <<v>>

(***************************************************************************)
(* Strings and paths.                                                      *)
(***************************************************************************)
Str(isAbs, comps) == [abs |-> isAbs, parts |-> comps]

EmptyStr == Str(FALSE, <<>>)

RECURSIVE DropDots(_)
DropDots(comps) ==
    IF comps = <<>> THEN <<>>
    ELSE IF Head(comps) = "." THEN DropDots(Tail(comps))
         ELSE <<Head(comps)>> \o DropDots(Tail(comps))

\* pathlib.Path(s): "." components are dropped
Path(s) == Str(s.abs, DropDots(s.parts))

\* Path / str: an absolute right operand replaces the left one
Join(p, s) ==
    IF s.abs THEN Path(s)
    ELSE Str(p.abs, p.parts \o DropDots(s.parts))

\* Path.name: the final component
PathName(p) == IF p.parts = <<>> THEN "" ELSE p.parts[Len(p.parts)]

\* Path.resolve(): the absolute form, relative paths taken from the cwd
Absolute(wd, p) == Join(wd, p)

WorkDir == Str(TRUE, <<"work">>)
PdfDir  == Str(TRUE, <<"pdfs">>)
NoDir   == Str(TRUE, <<"nodir">>)

Dirs == {WorkDir, PdfDir}

\* Path.exists(): a file or a directory at that location
Exists(fs, wd, p) == Absolute(wd, p) \in fs \cup Dirs

IsDir(wd, p) == Absolute(wd, p) \in Dirs

\* truth value of an optional string: None and "" are false
Truthy(optStr) == optStr # None /\ optStr[1] # EmptyStr

NotFound(file_path, wd) ==
    [kind |-> "raise", exc |-> "FileNotFoundError",
     value |-> <<file_path, Absolute(wd, Path(file_path))>>]

Returned(v) == [kind |-> "return", exc |-> "", value |-> <<v>>]

resolve_path_alt_first(fs, wd, env, file_path) ==
    IF Truthy(env) /\ Exists(fs, wd, Join(Path(env[1]), file_path))
    THEN Returned(Join(Path(env[1]), file_path))
    ELSE IF Exists(fs, wd, Path(file_path)) THEN Returned(Path(file_path))
         ELSE NotFound(file_path, wd)

resolve_path_alt_unchecked(fs, wd, env, file_path) ==
    IF Exists(fs, wd, Path(file_path)) THEN Returned(Path(file_path))
    ELSE IF Truthy(env) THEN Returned(Join(Path(env[1]), file_path))
         ELSE NotFound(file_path, wd)

resolve_path(fs, wd, env, file_path) ==
    LET path == Path(file_path) IN
    IF ~Exists(fs, wd, path)
    THEN IF Truthy(env) /\ Exists(fs, wd, Join(Path(env[1]), file_path))
         THEN Returned(Join(Path(env[1]), file_path))
         ELSE NotFound(file_path, wd)
    ELSE Returned(path)

(***************************************************************************)
(* The environment: the files of the file system with the document each    *)
(* holds, as the engine sees it.  pages is the page count, badPages the    *)
(* 0-based pages whose text extraction fails, imgs the image references    *)
(* (xrefs) of each 0-based page in the engine's order, badXrefs the image  *)
(* streams the engine cannot extract.                                      *)
(***************************************************************************)
FileA      == Str(TRUE, <<"work", "a.pdf">>)
FileEmpty  == Str(TRUE, <<"work", "empty.pdf">>)
FileADir   == Str(TRUE, <<"pdfs", "a.pdf">>)
FileB      == Str(TRUE, <<"pdfs", "b.pdf">>)

AllFiles == {FileA, FileEmpty, FileADir, FileB}

Document(f) ==
    IF f = FileA
    THEN [pages |-> 2, badPages |-> {}, imgs |-> <<<<7, 8, 7>>, <<>>>>, badXrefs |-> {}]
    ELSE IF f = FileB
    THEN [pages |-> 3, badPages |-> {1}, imgs |-> <<<<5, 9>>, <<>>, <<8>>>>, badXrefs |-> {9}]
    ELSE IF f = FileADir
    THEN [pages |-> 1, badPages |-> {}, imgs |-> <<<<>>>>, badXrefs |-> {}]
    ELSE [pages |-> 0, badPages |-> {}, imgs |-> <<>>, badXrefs |-> {}]

\* the raw bytes and metadata the engine reports for an image stream
ImageStream(xref) ==
    IF xref = 7 THEN [width |-> 1, height |-> 1, ext |-> "png", image |-> <<137, 80, 78, 71>>]
    ELSE IF xref = 8 THEN [width |-> 2, height |-> 1, ext |-> "jpeg", image |-> <<255, 216, 255, 224, 0>>]
    ELSE [width |-> 1, height |-> 2, ext |-> "png", image |-> <<137, 80, 78>>]

\* the strings a caller may pass as file_path
RefA       == Str(FALSE, <<"a.pdf">>)
RefDotA    == Str(FALSE, <<".", "a.pdf">>)
RefB       == Str(FALSE, <<"b.pdf">>)
RefEmpty   == Str(FALSE, <<"empty.pdf">>)
RefMissing == Str(FALSE, <<"missing.pdf">>)
RefAbsA    == Str(TRUE, <<"work", "a.pdf">>)
RefAbsGone == Str(TRUE, <<"work", "gone.pdf">>)

Refs == {RefA, RefDotA, RefB, RefEmpty, RefMissing, RefAbsA, RefAbsGone}

\* the values of the environment variable PDF_DIR: unset, "", a directory, no directory
PdfDirValues == {None, Some(EmptyStr), Some(PdfDir), Some(NoDir)}

\* the strings the tools are called with
ToolRefs == {RefA, RefB, RefEmpty, RefMissing}

(***************************************************************************)
(* The document engine (fitz), as far as the tools use it.  A handle is    *)
(* [owner, file, open]; the table of handles only grows.                   *)
(***************************************************************************)
Max(a, b) == IF a >= b THEN a ELSE b
Min(a, b) == IF a <= b THEN a ELSE b

fitz_open_cached(hs, c, f) ==
    IF \E h \in 1..Len(hs) : hs[h].file = f /\ hs[h].open
    THEN <<hs, CHOOSE h \in 1..Len(hs) : hs[h].file = f /\ hs[h].open>>
    ELSE <<Append(hs, [owner |-> c, file |-> f, open |-> TRUE]), Len(hs) + 1>>

\* fitz.open(path): a new handle on the document, <<the table, the handle>>
fitz_open(hs, c, f) ==
    <<Append(hs, [owner |-> c, file |-> f, open |-> TRUE]), Len(hs) + 1>>

\* doc.close()
doc_close(hs, d) == [hs EXCEPT ![d].open = FALSE]

\* doc[i]: i >= page count raises IndexError, a negative i counts from the
\* end by adding the page count until it is >= 0, which a document of no
\* pages never reaches
LoadPage(total, i) ==
    IF i >= total THEN [kind |-> "IndexError", pno |-> 0]
    ELSE IF i >= 0 THEN [kind |-> "page", pno |-> i]
    ELSE IF total = 0 THEN [kind |-> "unbounded", pno |-> 0]
    ELSE [kind |-> "page", pno |-> i % total]

\* page.get_text().strip(), or with the OCR text page: the page's trimmed text
PageText(op, f, pno) ==
    [file |-> f, page |-> pno, layer |-> IF op = "read_by_ocr" THEN "ocr" ELSE "text"]

Raised(e) == [kind |-> "raise", exc |-> e, value |-> <<>>]

NoOutcome == [kind |-> "none", exc |-> "", value |-> <<>>]

(***************************************************************************)
(* Page-range normalisation of read_pdf_text and read_by_ocr.              *)
(***************************************************************************)
\* end_page or total_pages: None and 0 are false
OrElse(opt, dflt) == IF opt = None \/ opt[1] = 0 THEN dflt ELSE opt[1]

NormalizeRange_no_swap(total_pages, start_page, end_page) ==
    <<Max(1, start_page), Min(total_pages, OrElse(end_page, total_pages))>>

NormalizeRange_zero_is_a_page(total_pages, start_page, end_page) ==
    LET s == Max(1, start_page)
        e == Min(total_pages, IF end_page = None THEN total_pages ELSE end_page[1])
    IN  IF s > e THEN <<e, s>> ELSE <<s, e>>

NormalizeRange(total_pages, start_page, end_page) ==
    LET s == Max(1, start_page)
        e == Min(total_pages, OrElse(end_page, total_pages))
    IN  IF s > e THEN <<e, s>> ELSE <<s, e>>

Header(path, total_pages) == [file |-> PathName(path), pages |-> total_pages]

PageBlock(page_num, text) == [n |-> page_num + 1, text |-> text]

(***************************************************************************)
(* The image records of read_pdf_images.                                   *)
(***************************************************************************)
Digits == <<"0", "1", "2", "3", "4", "5", "6", "7", "8", "9">>

\* str(n) for n >= 0: the decimal digits
RECURSIVE Dec(_)
Dec(n) == IF n < 10 THEN <<Digits[n + 1]>> ELSE Dec(n \div 10) \o <<Digits[(n % 10) + 1]>>

ImageId_zero_based(page_number, idx) ==
    <<"p">> \o Dec(page_number) \o <<"_img">> \o Dec(idx)

\* f"p{page_number}_img{idx + 1}"
ImageId(page_number, idx) ==
    <<"p">> \o Dec(page_number) \o <<"_img">> \o Dec(idx + 1)

\* base64.b64encode: 6-bit values, 64 stands for the padding "="
RECURSIVE b64encode(_)
b64encode(bytes) ==
    IF bytes = <<>> THEN <<>>
    ELSE IF Len(bytes) = 1
    THEN <<bytes[1] \div 4, (bytes[1] % 4) * 16, 64, 64>>
    ELSE IF Len(bytes) = 2
    THEN <<bytes[1] \div 4, (bytes[1] % 4) * 16 + bytes[2] \div 16,
           (bytes[2] % 16) * 4, 64>>
    ELSE <<bytes[1] \div 4, (bytes[1] % 4) * 16 + bytes[2] \div 16,
           (bytes[2] % 16) * 4 + bytes[3] \div 64, bytes[3] % 64>>
         \o b64encode(SubSeq(bytes, 4, Len(bytes)))

ImageRecord(page_number, idx, base_image) ==
    [image_id   |-> ImageId(page_number, idx),
     width      |-> base_image.width,
     height     |-> base_image.height,
     format     |-> base_image.ext,
     size_bytes |-> Len(base_image.image),
     base64     |-> b64encode(base_image.image)]

ImagesResult(path, page_number, total_pages, images) ==
    [file |-> PathName(path), page |-> page_number, total_pages |-> total_pages,
     image_count |-> Len(images), images |-> images]

PageOutOfRange_off_by_one(page_number, total_pages) ==
    page_number < 1 \/ page_number >= total_pages

\* page_number < 1 or page_number > total_pages
PageOutOfRange(page_number, total_pages) ==
    page_number < 1 \/ page_number > total_pages

ValueRange(page_number, total_pages) ==
    [kind |-> "raise", exc |-> "ValueError", value |-> <<page_number, 1, total_pages>>]

(***************************************************************************)
(* The state.  calls[c] is the frame of the invocation in slot c: the      *)
(* request it was called with (req), its position (pc) and its locals,     *)
(* which carry the names of the source; accessed lists the page indexes    *)
(* it passed to doc[...].                                                  *)
(***************************************************************************)
NoRequest ==
    [op |-> "", file_path |-> EmptyStr, start_page |-> 0, end_page |-> None,
     page_number |-> 0]

IdleCall ==
    [pc |-> "idle", req |-> NoRequest, path |-> EmptyStr, doc |-> 0,
     total_pages |-> 0, start_page |-> 0, end_page |-> 0, page_num |-> 0,
     result |-> <<>>, image_list |-> <<>>, idx |-> 0, images |-> <<>>,
     accessed |-> <<>>, outcome |-> NoOutcome]

TextOps == {"read_pdf_text", "read_by_ocr"}

TextRequests ==
    {[op |-> o, file_path |-> f, start_page |-> s, end_page |-> e, page_number |-> 0] :
        o \in TextOps, f \in ToolRefs, s \in MinArg..MaxArg,
        e \in {None} \cup {Some(n) : n \in MinArg..MaxArg}}

ImageRequests ==
    {[op |-> "read_pdf_images", file_path |-> f, start_page |-> 0, end_page |-> None,
      page_number |-> n] : f \in ToolRefs, n \in MinArg..MaxArg + 1}

Requests == TextRequests \cup ImageRequests

(***************************************************************************)
(* Start-up.  The module is either run through main() or imported (as the  *)
(* tests do), and then serves calls without main() having run.             *)
(***************************************************************************)
Init ==
    /\ files = AllFiles
    /\ cwd = WorkDir
    /\ pdf_dir \in PdfDirValues
    /\ server \in {"boot", "imported"}
    /\ calls = [c \in Calls |-> IdleCall]
    /\ handles = <<>>
    /\ resolved = NoOutcome

main ==
    /\ server = "boot"
    /\ server' = "serving"
    /\ cwd' = IF Truthy(pdf_dir) /\ IsDir(cwd, Path(pdf_dir[1]))
              THEN Absolute(cwd, Path(pdf_dir[1]))
              ELSE cwd
    /\ UNCHANGED <<files, pdf_dir, calls, handles, resolved>>

Ready == server \in {"serving", "imported"}

Frame(c) == calls[c]

DocOpen(c) == handles[Frame(c).doc].open

DocOf(c) == Document(handles[Frame(c).doc].file)

Fail(c, outcome) == [Frame(c) EXCEPT !.pc = "done", !.outcome = outcome]

\* lines 57-58, 99-100, 136-137: path = resolve_path(file_path); doc = fitz.open(path)
Enter(c, reqs) ==
    /\ Ready
    /\ Frame(c).pc = "idle"
    /\ \E r \in reqs :
         LET out == resolve_path(files, cwd, pdf_dir, r.file_path) IN
         IF out.kind = "raise"
         THEN /\ calls' = [calls EXCEPT ![c] =
                             [IdleCall EXCEPT !.pc = "done", !.req = r, !.outcome = out]]
              /\ UNCHANGED handles
         ELSE /\ Len(handles) < MaxHandles
              /\ LET o == fitz_open(handles, c, Absolute(cwd, out.value[1])) IN
                 /\ handles' = o[1]
                 /\ calls' = [calls EXCEPT ![c] =
                                [IdleCall EXCEPT !.pc = "opened", !.req = r,
                                                 !.path = out.value[1], !.doc = o[2]]]
    /\ UNCHANGED <<files, cwd, pdf_dir, server, resolved>>

\* lines 60-67 (read_pdf_text), 102-109 (read_by_ocr)
Normalize(c) ==
    /\ Frame(c).pc = "opened"
    /\ Frame(c).req.op \in TextOps
    /\ IF ~DocOpen(c)
       THEN calls' = [calls EXCEPT ![c] = Fail(c, Raised("DocumentClosed"))]
       ELSE LET total == DocOf(c).pages
                range == NormalizeRange(total, Frame(c).req.start_page, Frame(c).req.end_page)
            IN  calls' = [calls EXCEPT ![c] =
                            [Frame(c) EXCEPT !.pc = "pages",
                                             !.total_pages = total,
                                             !.start_page = range[1],
                                             !.end_page = range[2],
                                             !.page_num = range[1] - 1,
                                             !.result = <<Header(Frame(c).path, total)>>]]
    /\ UNCHANGED <<files, cwd, pdf_dir, server, handles, resolved>>

\* lines 69-72 (read_pdf_text), 111-115 (read_by_ocr): one iteration of the loop
ExtractPage(c) ==
    /\ Frame(c).pc = "pages"
    /\ Frame(c).page_num < Frame(c).end_page
    /\ LET f    == [Frame(c) EXCEPT !.accessed = Append(@, Frame(c).page_num)]
           page == LoadPage(DocOf(c).pages, Frame(c).page_num)
       IN  IF ~DocOpen(c)
           THEN calls' = [calls EXCEPT ![c] =
                            [f EXCEPT !.pc = "done", !.outcome = Raised("DocumentClosed")]]
           ELSE IF page.kind = "IndexError"
           THEN calls' = [calls EXCEPT ![c] =
                            [f EXCEPT !.pc = "done", !.outcome = Raised("IndexError")]]
           ELSE IF page.kind = "unbounded"
           THEN \/ calls' = [calls EXCEPT ![c] = [f EXCEPT !.pc = "hung"]]
                \/ calls' = [calls EXCEPT ![c] =
                               [f EXCEPT !.pc = "done", !.outcome = Raised("EngineError")]]
           ELSE IF page.pno \in DocOf(c).badPages
           THEN calls' = [calls EXCEPT ![c] =
                            [f EXCEPT !.pc = "done", !.outcome = Raised("EngineError")]]
           ELSE calls' = [calls EXCEPT ![c] =
                            [f EXCEPT !.page_num = @ + 1,
                                      !.result = Append(@,
                                          PageBlock(Frame(c).page_num,
                                              PageText(Frame(c).req.op,
                                                       handles[Frame(c).doc].file,
                                                       page.pno)))]]
    /\ UNCHANGED <<files, cwd, pdf_dir, server, handles, resolved>>

\* lines 74-75 (read_pdf_text), 117-118 (read_by_ocr): doc.close(); return result
CloseText(c) ==
    /\ Frame(c).pc = "pages"
    /\ Frame(c).page_num >= Frame(c).end_page
    /\ IF ~DocOpen(c)
       THEN /\ calls' = [calls EXCEPT ![c] = Fail(c, Raised("DocumentClosed"))]
            /\ UNCHANGED handles
       ELSE /\ handles' = doc_close(handles, Frame(c).doc)
            /\ calls' = [calls EXCEPT ![c] =
                           [Frame(c) EXCEPT !.pc = "done",
                                            !.outcome = Returned(Frame(c).result)]]
    /\ UNCHANGED <<files, cwd, pdf_dir, server, resolved>>

\* lines 139-141 (read_pdf_images): the page-number check
ValidatePage(c) ==
    /\ Frame(c).pc = "opened"
    /\ Frame(c).req.op = "read_pdf_images"
    /\ IF ~DocOpen(c)
       THEN calls' = [calls EXCEPT ![c] = Fail(c, Raised("DocumentClosed"))]
       ELSE LET total == DocOf(c).pages IN
            IF PageOutOfRange(Frame(c).req.page_number, total)
            THEN calls' = [calls EXCEPT ![c] =
                             [Frame(c) EXCEPT !.pc = "done", !.total_pages = total,
                                 !.outcome = ValueRange(Frame(c).req.page_number, total)]]
            ELSE calls' = [calls EXCEPT ![c] =
                             [Frame(c) EXCEPT !.pc = "validated", !.total_pages = total]]
    /\ UNCHANGED <<files, cwd, pdf_dir, server, handles, resolved>>

\* lines 143-146 (read_pdf_images): page = doc[page_number - 1]; page.get_images(full=True)
ListImages(c) ==
    /\ Frame(c).pc = "validated"
    /\ LET i    == Frame(c).req.page_number - 1
           f    == [Frame(c) EXCEPT !.accessed = Append(@, i)]
           page == LoadPage(DocOf(c).pages, i)
       IN  IF ~DocOpen(c)
           THEN calls' = [calls EXCEPT ![c] =
                            [f EXCEPT !.pc = "done", !.outcome = Raised("DocumentClosed")]]
           ELSE IF page.kind # "page"
           THEN calls' = [calls EXCEPT ![c] =
                            [f EXCEPT !.pc = "done", !.outcome = Raised("IndexError")]]
           ELSE calls' = [calls EXCEPT ![c] =
                            [f EXCEPT !.pc = "images",
                                      !.image_list = DocOf(c).imgs[page.pno + 1],
                                      !.images = <<>>,
                                      !.idx = 0]]
    /\ UNCHANGED <<files, cwd, pdf_dir, server, handles, resolved>>

\* lines 147-158 (read_pdf_images): one iteration of the loop over image_list
ExtractImage(c) ==
    /\ Frame(c).pc = "images"
    /\ Frame(c).idx < Len(Frame(c).image_list)
    /\ LET xref == Frame(c).image_list[Frame(c).idx + 1] IN
       IF ~DocOpen(c)
       THEN calls' = [calls EXCEPT ![c] = Fail(c, Raised("DocumentClosed"))]
       ELSE IF xref \in DocOf(c).badXrefs
       THEN calls' = [calls EXCEPT ![c] = Fail(c, Raised("EngineError"))]
       ELSE calls' = [calls EXCEPT ![c] =
                        [Frame(c) EXCEPT !.idx = @ + 1,
                                         !.images = Append(@,
                                             ImageRecord(Frame(c).req.page_number,
                                                         Frame(c).idx,
                                                         ImageStream(xref)))]]
    /\ UNCHANGED <<files, cwd, pdf_dir, server, handles, resolved>>

\* lines 160-168 (read_pdf_images): doc.close(); return the record
CloseImages(c) ==
    /\ Frame(c).pc = "images"
    /\ Frame(c).idx >= Len(Frame(c).image_list)
    /\ IF ~DocOpen(c)
       THEN /\ calls' = [calls EXCEPT ![c] = Fail(c, Raised("DocumentClosed"))]
            /\ UNCHANGED handles
       ELSE /\ handles' = doc_close(handles, Frame(c).doc)
            /\ calls' = [calls EXCEPT ![c] =
                           [Frame(c) EXCEPT !.pc = "done",
                               !.outcome = Returned(ImagesResult(Frame(c).path,
                                                                 Frame(c).req.page_number,
                                                                 Frame(c).total_pages,
                                                                 Frame(c).images))]]
    /\ UNCHANGED <<files, cwd, pdf_dir, server, resolved>>

\* the call has returned or raised: its outcome goes to the caller and its
\* frame is gone; the handle table keeps what the call left in it
Respond(c) ==
    /\ Frame(c).pc = "done"
    /\ calls' = [calls EXCEPT ![c] = IdleCall]
    /\ UNCHANGED <<files, cwd, pdf_dir, server, handles, resolved>>

(***************************************************************************)
(* The server handling one call at a time, over all requests.              *)
(***************************************************************************)
Next ==
    \/ main
    \/ Enter(1, Requests)
    \/ Normalize(1)
    \/ ExtractPage(1)
    \/ CloseText(1)
    \/ ValidatePage(1)
    \/ ListImages(1)
    \/ ExtractImage(1)
    \/ CloseImages(1)
    \/ Respond(1)

Spec == Init /\ [][Next]_vars

(***************************************************************************)
(* The server with NCalls calls in flight at once, interleaved at the      *)
(* engine calls, over a few requests.                                      *)
(***************************************************************************)
ConcurrentRequests ==
    {[op |-> "read_pdf_text", file_path |-> RefA, start_page |-> 1, end_page |-> None,
      page_number |-> 0],
     [op |-> "read_by_ocr", file_path |-> RefB, start_page |-> 1, end_page |-> Some(1),
      page_number |-> 0],
     [op |-> "read_by_ocr", file_path |-> RefB, start_page |-> 2, end_page |-> None,
      page_number |-> 0],
     [op |-> "read_pdf_images", file_path |-> RefA, start_page |-> 0, end_page |-> None,
      page_number |-> 1],
     [op |-> "read_pdf_images", file_path |-> RefB, start_page |-> 0, end_page |-> None,
      page_number |-> 1],
     [op |-> "read_pdf_images", file_path |-> RefB, start_page |-> 0, end_page |-> None,
      page_number |-> 4]}

NextConcurrent ==
    \/ main
    \/ \E c \in Calls :
         \/ Enter(c, ConcurrentRequests)
         \/ Normalize(c)
         \/ ExtractPage(c)
         \/ CloseText(c)
         \/ ValidatePage(c)
         \/ ListImages(c)
         \/ ExtractImage(c)
         \/ CloseImages(c)
         \/ Respond(c)

SpecConcurrent == Init /\ [][NextConcurrent]_vars

(***************************************************************************)
(* resolve_path alone, over every file system, PDF_DIR and reference.      *)
(***************************************************************************)
InitPath ==
    /\ files \in SUBSET AllFiles
    /\ cwd = WorkDir
    /\ pdf_dir \in PdfDirValues
    /\ server \in {"boot", "imported"}
    /\ calls = [c \in Calls |-> IdleCall]
    /\ handles = <<>>
    /\ resolved = NoOutcome

Resolve ==
    /\ Ready
    /\ \E r \in Refs :
         resolved' = [resolve_path(files, cwd, pdf_dir, r) EXCEPT !.value = <<r>> \o @]
    /\ UNCHANGED <<files, cwd, pdf_dir, server, calls, handles>>

NextPath == main \/ Resolve

SpecPath == InitPath /\ [][NextPath]_vars

(***************************************************************************)
(* A call run alone: the outcomes read_pdf_text, read_by_ocr and           *)
(* read_pdf_images have on a request when nothing else runs, as one        *)
(* function of the request and the environment.                            *)
(***************************************************************************)
Hung == [kind |-> "hang", exc |-> "", value |-> <<>>]

RECURSIVE TextLoop(_, _, _, _, _)
TextLoop(op, file, page_num, end_page, result) ==
    IF page_num >= end_page THEN {Returned(result)}
    ELSE LET page == LoadPage(Document(file).pages, page_num) IN
         IF page.kind = "IndexError" THEN {Raised("IndexError")}
         ELSE IF page.kind = "unbounded" THEN {Hung, Raised("EngineError")}
         ELSE IF page.pno \in Document(file).badPages THEN {Raised("EngineError")}
         ELSE TextLoop(op, file, page_num + 1, end_page,
                       Append(result, PageBlock(page_num, PageText(op, file, page.pno))))

SoloText(op, path, file, start_page, end_page) ==
    LET total == Document(file).pages
        range == NormalizeRange(total, start_page, end_page)
    IN  TextLoop(op, file, range[1] - 1, range[2], <<Header(path, total)>>)

RECURSIVE ImageLoop(_, _, _, _, _)
ImageLoop(file, page_number, image_list, idx, images) ==
    IF idx >= Len(image_list) THEN <<"ok", images>>
    ELSE IF image_list[idx + 1] \in Document(file).badXrefs THEN <<"raise", images>>
    ELSE ImageLoop(file, page_number, image_list, idx + 1,
                   Append(images, ImageRecord(page_number, idx,
                                              ImageStream(image_list[idx + 1]))))

SoloImages(path, file, page_number) ==
    LET total == Document(file).pages IN
    IF PageOutOfRange(page_number, total) THEN {ValueRange(page_number, total)}
    ELSE LET run == ImageLoop(file, page_number, Document(file).imgs[page_number], 0, <<>>)
         IN  IF run[1] = "raise" THEN {Raised("EngineError")}
             ELSE {Returned(ImagesResult(path, page_number, total, run[2]))}

SoloOutcomes(fs, wd, env, req) ==
    LET out == resolve_path(fs, wd, env, req.file_path) IN
    IF out.kind = "raise" THEN {out}
    ELSE IF req.op \in TextOps
    THEN SoloText(req.op, out.value[1], Absolute(wd, out.value[1]),
                  req.start_page, req.end_page)
    ELSE SoloImages(out.value[1], Absolute(wd, out.value[1]), req.page_number)

\* what the call in slot c has come to, once it has
FrameOutcome(c) == IF Frame(c).pc = "hung" THEN Hung ELSE Frame(c).outcome

Ended(c) == Frame(c).pc \in {"done", "hung"}

InFlight(c) == Frame(c).pc \in {"opened", "pages", "validated", "images"}

(***************************************************************************)
(* The claims.                                                             *)
(***************************************************************************)
Normalized(c) ==
    /\ Frame(c).req.op \in TextOps
    /\ Frame(c).pc \in {"pages", "done", "hung"}
    /\ Frame(c).doc # 0
    /\ Frame(c).result # <<>>

\* C1: in read_pdf_text and read_by_ocr, on a document of at least one page,
\* the range computed before the page loop satisfies
\* 1 <= start <= end <= total_pages for every start_page and end_page, and
\* no page outside 1..total_pages is accessed.
C1_RangeWithinDocument ==
    \A c \in Calls :
        (Normalized(c) /\ Frame(c).total_pages >= 1) =>
            /\ 1 <= Frame(c).start_page
            /\ Frame(c).start_page <= Frame(c).end_page
            /\ Frame(c).end_page <= Frame(c).total_pages
            /\ \A k \in 1..Len(Frame(c).accessed) :
                   Frame(c).accessed[k] + 1 \in 1..Frame(c).total_pages

\* C2: a call that has ended, by returning or by raising after it opened
\* the document, has closed its document handle.
C2_HandleClosedOnEveryExit ==
    \A c \in Calls :
        (Frame(c).pc = "done" /\ Frame(c).doc # 0) => ~handles[Frame(c).doc].open

\* C3: read_pdf_images raises the ValueRange error, reporting the page and
\* the bounds 1-total_pages, exactly when page_number < 1 or page_number >
\* total_pages; then no page is read, no image enumerated and nothing is
\* returned; for page_number in 1..total_pages the error is not raised.
C3_ValueRangeIffOutOfBounds ==
    \A c \in Calls :
        (/\ Frame(c).req.op = "read_pdf_images"
         /\ Frame(c).pc \in {"validated", "images", "done"}
         /\ Frame(c).doc # 0) =>
            LET n     == Frame(c).req.page_number
                total == Document(handles[Frame(c).doc].file).pages
                error == [kind |-> "raise", exc |-> "ValueError", value |-> <<n, 1, total>>]
            IN  /\ (Frame(c).outcome = error) <=> (n < 1 \/ n > total)
                /\ (n < 1 \/ n > total) =>
                       /\ Frame(c).pc = "done"
                       /\ Frame(c).accessed = <<>>
                       /\ Frame(c).image_list = <<>>
                       /\ Frame(c).images = <<>>
                /\ (n \in 1..total) => Frame(c).outcome.exc # "ValueError"

C3_Witness ==
    \E c \in Calls :
        /\ Frame(c).req.op = "read_pdf_images"
        /\ Frame(c).pc = "done"
        /\ Frame(c).req.page_number = 4
        /\ Frame(c).outcome = [kind |-> "raise", exc |-> "ValueError", value |-> <<4, 1, 3>>]

\* C4: a reference that exists as given (relative to the working directory
\* or absolute) is returned as the path of that reference, whatever PDF_DIR
\* is and whether or not the same name exists under PDF_DIR.
C4_DirectPathFirst ==
    resolved.kind # "none" =>
        LET ref == resolved.value[1] IN
        (Join(cwd, Path(ref)) \in files \cup Dirs) =>
            /\ resolved.kind = "return"
            /\ resolved.value[2] = Path(ref)

C4_Witness ==
    /\ resolved.kind = "return"
    /\ resolved.value[1] = RefA
    /\ resolved.value[2] = Path(RefA)
    /\ cwd = WorkDir
    /\ pdf_dir = Some(PdfDir)
    /\ {FileA, FileADir} \subseteq files

\* C5: a reference that does not exist as given resolves to the path joined
\* onto PDF_DIR exactly when PDF_DIR is set, non-empty and the joined path
\* exists, and in every other case raises NotFound and returns no path.
C5_FallbackOrNotFound ==
    resolved.kind # "none" =>
        LET ref    == resolved.value[1]
            set    == pdf_dir # None /\ pdf_dir[1] # EmptyStr
            joined == Join(Path(pdf_dir[1]), ref)
        IN  (Join(cwd, Path(ref)) \notin files \cup Dirs) =>
                IF set /\ Join(cwd, joined) \in files \cup Dirs
                THEN /\ resolved.kind = "return"
                     /\ resolved.value[2] = joined
                ELSE /\ resolved.kind = "raise"
                     /\ resolved.exc = "FileNotFoundError"

C5_Witness ==
    /\ resolved.kind = "return"
    /\ resolved.value[1] = RefB
    /\ resolved.value[2] = Str(TRUE, <<"pdfs", "b.pdf">>)
    /\ cwd = WorkDir

\* C6: on a document of total_pages >= 1 pages, with start_page and end_page
\* both in 1..total_pages in either order, read_pdf_text returns the header
\* carrying the file name and the page count, followed by exactly one block
\* per page from the smaller to the larger of the two, in ascending order,
\* each tagged with its 1-based page number and holding that page's text.
C6_BlocksOfRequestedRange ==
    \A c \in Calls :
        (/\ Frame(c).req.op = "read_pdf_text"
         /\ Frame(c).pc = "done"
         /\ Frame(c).outcome.kind = "return"
         /\ Frame(c).req.end_page # None) =>
            LET file  == handles[Frame(c).doc].file
                total == Document(file).pages
                s     == Frame(c).req.start_page
                e     == Frame(c).req.end_page[1]
                lo    == IF s <= e THEN s ELSE e
                hi    == IF s <= e THEN e ELSE s
                text  == Frame(c).outcome.value[1]
            IN  (total >= 1 /\ s \in 1..total /\ e \in 1..total) =>
                    /\ Len(text) = 1 + (hi - lo + 1)
                    /\ text[1] = [file |-> PathName(Frame(c).path), pages |-> total]
                    /\ \A k \in 1..(hi - lo + 1) :
                           text[k + 1] =
                               [n |-> lo + k - 1,
                                text |-> [file |-> file, page |-> lo + k - 2,
                                          layer |-> "text"]]

C6_Witness ==
    \E c \in Calls :
        /\ Frame(c).req.op = "read_pdf_text"
        /\ Frame(c).pc = "done"
        /\ Frame(c).outcome.kind = "return"
        /\ Frame(c).req.start_page = 2
        /\ Frame(c).req.end_page = Some(1)
        /\ Len(Frame(c).outcome.value[1]) = 3
        /\ Frame(c).outcome.value[1][2].n = 1
        /\ Frame(c).outcome.value[1][3].n = 2

\* the length of what a base64 text decodes to
DecodedLen(b64) ==
    (Len(b64) \div 4) * 3 - Cardinality({k \in 1..Len(b64) : b64[k] = 64})

\* C7: for a valid page_number whose page has n image references
\* (duplicates included), read_pdf_images returns image_count = n and n
\* records in the engine's order; record i has the identifier
\* p<page_number>_img<i>, identifiers are distinct, and size_bytes is the
\* length of the image's raw bytes, which is what its base64 text decodes to.
C7_OneRecordPerImageReference ==
    \A c \in Calls :
        (/\ Frame(c).req.op = "read_pdf_images"
         /\ Frame(c).pc = "done"
         /\ Frame(c).outcome.kind = "return") =>
            LET page == Frame(c).req.page_number
                refs == Document(handles[Frame(c).doc].file).imgs[page]
                rec  == Frame(c).outcome.value[1]
            IN  /\ rec.image_count = Len(refs)
                /\ Len(rec.images) = Len(refs)
                /\ rec.page = page
                /\ \A i \in 1..Len(refs) :
                       /\ rec.images[i].image_id = <<"p">> \o Dec(page) \o <<"_img">> \o Dec(i)
                       /\ rec.images[i].size_bytes = Len(ImageStream(refs[i]).image)
                       /\ DecodedLen(rec.images[i].base64) = rec.images[i].size_bytes
                       /\ rec.images[i].width = ImageStream(refs[i]).width
                       /\ rec.images[i].format = ImageStream(refs[i]).ext
                /\ \A i, j \in 1..Len(refs) :
                       i # j => rec.images[i].image_id # rec.images[j].image_id

C7_Witness ==
    \E c \in Calls :
        /\ Frame(c).req.op = "read_pdf_images"
        /\ Frame(c).pc = "done"
        /\ Frame(c).outcome.kind = "return"
        /\ Frame(c).req.page_number = 1
        /\ Frame(c).outcome.value[1].image_count = 3
        /\ Frame(c).outcome.value[1].images[1].image_id = <<"p", "1", "_img", "1">>
        /\ Frame(c).outcome.value[1].images[3].image_id = <<"p", "1", "_img", "3">>
        /\ Frame(c).outcome.value[1].images[1].base64 = Frame(c).outcome.value[1].images[3].base64

\* C8: with several calls in flight in any interleaving, each call holds a
\* handle it opened itself, no two calls hold the same handle, the handle of
\* a call in flight has not been closed by another call, and the outcome of
\* every call is an outcome the same request has when run alone.
C8_CallsIndependent ==
    /\ \A c \in Calls :
           Frame(c).doc # 0 => handles[Frame(c).doc].owner = c
    /\ \A c, d \in Calls :
           (c # d /\ Frame(c).doc # 0) => Frame(c).doc # Frame(d).doc
    /\ \A c \in Calls : InFlight(c) => handles[Frame(c).doc].open
    /\ \A c \in Calls :
           Ended(c) => FrameOutcome(c) \in SoloOutcomes(files, cwd, pdf_dir, Frame(c).req)

C8_Witness ==
    \E c, d \in Calls :
        /\ c # d
        /\ Frame(c).pc = "done"
        /\ Frame(c).outcome.kind = "return"
        /\ ~handles[Frame(c).doc].open
        /\ Frame(d).pc = "pages"
        /\ Frame(d).accessed # <<>>
        /\ handles[Frame(d).doc].file = handles[Frame(c).doc].file
        /\ handles[Frame(d).doc].open

\* C9: on a document of no pages, read_pdf_text and read_by_ocr access no
\* page for any start_page and end_page, raise nothing, and return the
\* header with no page block.
C9_ZeroPagesEmptyIteration ==
    \A c \in Calls :
        (Normalized(c) /\ Document(handles[Frame(c).doc].file).pages = 0) =>
            /\ Frame(c).accessed = <<>>
            /\ Frame(c).pc # "hung"
            /\ Frame(c).pc = "done" =>
                   Frame(c).outcome = Returned(<<[file |-> PathName(Frame(c).path), pages |-> 0]>>)

\* C10: in read_pdf_text and read_by_ocr, end_page = 0 is treated as an
\* absent end_page: the range is the one computed with end_page omitted (the
\* last page is the end, 0 is not clamped as a page below 1) and the outcome
\* is the outcome of the call with end_page omitted.
C10_EndPageZeroIsAbsent ==
    \A c \in Calls :
        (Normalized(c) /\ Frame(c).req.end_page = Some(0)) =>
            LET total == Document(handles[Frame(c).doc].file).pages
                s     == Frame(c).req.start_page
            IN  /\ <<Frame(c).start_page, Frame(c).end_page>> = NormalizeRange(total, s, None)
                /\ (s \in 1..total) =>
                       (Frame(c).start_page = s /\ Frame(c).end_page = total)
                /\ Ended(c) =>
                       FrameOutcome(c) \in
                           SoloOutcomes(files, cwd, pdf_dir,
                                        [Frame(c).req EXCEPT !.end_page = None])

C10_Witness ==
    \E c \in Calls :
        /\ Frame(c).req.op \in TextOps
        /\ Frame(c).req.end_page = Some(0)
        /\ Frame(c).req.start_page = 1
        /\ Frame(c).pc = "done"
        /\ Frame(c).outcome.kind = "return"
        /\ Frame(c).total_pages = 2
        /\ Len(Frame(c).outcome.value[1]) = 3

====
